---- MODULE Spec2Model ----
(***************************************************************************)
(* Hybrid retrieval engine of rag_gestionale: QueryClassifier,             *)
(* HybridRetriever.search (fetch, combine, rerank, diversify) and the      *)
(* index lifecycle (add_chunks, delete_chunks_by_url) over the dense       *)
(* (Qdrant) and the lexical (OpenSearch) channel.                           *)
(*                                                                         *)
(* Scores are Python floats in the source.  They are modelled as exact     *)
(* rationals <<numerator, denominator>> in lowest terms, so a division by  *)
(* the channel maximum, a 0.6/0.4 blend and a ".3f" rendering are          *)
(* computed, not assumed.                                                  *)
(***************************************************************************)
EXTENDS Integers, Sequences, FiniteSets, TLC

(***************************************************************************)
(* Bounds of the model                                                     *)
(***************************************************************************)
\* longest query, in words
MaxQueryLen == 3
\* configured base fan-out of the dense channel (settings.retrieval.k_dense)
KDense == 2
\* configured base fan-out of the lexical channel (settings.retrieval.k_lexical)
KLexical == 2
\* configured final result count (settings.retrieval.k_final)
KFinal == 2
\* configured per-section cap (settings.retrieval.diversification_threshold)
MaxPerSection == 1
\* largest top_k a caller passes to search()
MaxTopK == 3
\* process restarts (each restart draws a new string-hash salt)
MaxRestarts == 1
MaxBase == 3

(***************************************************************************)
(* Rational arithmetic for the float scores                                *)
(***************************************************************************)
Abs(n) == IF n < 0 THEN -n ELSE n

RECURSIVE GCD(_, _)
GCD(m, n) == IF n = 0 THEN m ELSE GCD(n, m % n)

\* the rational n/d (d # 0) in lowest terms with a positive denominator
Frac(n, d) ==
    LET g == GCD(Abs(n), Abs(d))
        s == IF d < 0 THEN -1 ELSE 1
    IN  << (s * n) \div g, (s * d) \div g >>

FracLeq(f, g) == f[1] * g[2] <= g[1] * f[2]
FracLt(f, g) == f[1] * g[2] < g[1] * f[2]

\* (wa/10)*a + (wb/10)*b
Blend(wa, a, wb, b) ==
    Frac(wa * a[1] * b[2] + wb * b[1] * a[2], 10 * a[2] * b[2])

\* f"{x:.3f}": the score in thousandths, rounded to nearest
Fmt3(f) ==
    IF f[1] >= 0
    THEN (2000 * f[1] + f[2]) \div (2 * f[2])
    ELSE -((2000 * (-f[1]) + f[2]) \div (2 * f[2]))

(***************************************************************************)
(* QueryClassifier                                                         *)
(***************************************************************************)
QueryType == {"parameter", "procedure", "error", "general"}

\* words a query is made of; "ERR-001" is an upper-case error code
Words ==
    {"errore", "ERR-001", "non", "funziona", "come", "impostare", "fare",
     "creare", "valori", "parametro", "procedura", "IVA"}

RECURSIVE SeqsUpTo(_, _)
SeqsUpTo(S, n) ==
    IF n = 0 THEN {<<>>}
    ELSE LET shorter == SeqsUpTo(S, n - 1)
         IN  shorter \cup {Append(q, w) : q \in shorter, w \in S}

\* queries the documentation and the unit tests name
DocumentedQueries ==
    { <<"errore", "nel", "calcolo", "del", "parametro", "IVA">>,
      <<"parametro", "predefinito", "fattura">>,
      <<"come", "creare", "una", "fattura">> }

\* a query is a non-empty sequence of words separated by single blanks
Queries == (SeqsUpTo(Words, MaxQueryLen) \ {<<>>}) \cup DocumentedQueries

\* str.lower() on one word
LowerWord(w) ==
    IF w = "ERR-001" THEN "err-001" ELSE IF w = "IVA" THEN "iva" ELSE w

\* query.lower()
Lower(q) == [i \in 1..Len(q) |-> LowerWord(q[i])]

\* \b[A-Z]{2,4}-?\d{2,4}\b : upper-case letters only, re.search has no flags
IsErrorCodeShape(w) == w \in {"ERR-001"}

\* \b(?:w1|w2|...)\b
HasWord(q, ws) == \E i \in 1..Len(q) : q[i] \in ws

\* \bfirst\s+(?:second...)\b
HasPair(q, firsts, seconds) ==
    \E i \in 1..(Len(q) - 1) : q[i] \in firsts /\ q[i + 1] \in seconds

\* \b(?:w1|w2)\s+.*\b : the word followed by at least one more word
HasWordThenMore(q, ws) == \E i \in 1..(Len(q) - 1) : q[i] \in ws

error_patterns(q) ==
    \/ \E i \in 1..Len(q) : IsErrorCodeShape(q[i])
    \/ HasWord(q, {"errore", "error", "avviso", "warning", "codice"})
    \/ HasPair(q, {"non"}, {"funziona", "va", "riesco"})

parameter_patterns(q) ==
    \/ HasWord(q, {"param", "impostaz", "valori", "predefin", "default", "range"})
    \/ HasPair(q, {"come"}, {"impostare", "configurare", "settare"})
    \/ HasPair(q, {"dove"}, {"trovo"})
    \/ \E i \in 1..(Len(q) - 2) :
          q[i] = "dove" /\ q[i + 1] = "si" /\ q[i + 2] = "trova"
    \/ HasPair(q, {"valor", "valori"}, {"ammessi", "possibili", "consentiti"})

procedure_patterns(q) ==
    \/ HasPair(q, {"come"}, {"fare", "eseguire", "effettuare"})
    \/ HasWord(q, {"procedura", "processo", "step", "passi"})
    \/ HasPair(q, {"per"}, {"creare", "generare", "stampare", "inviare"})
    \/ HasWordThenMore(q, {"configurare", "impostare"})

\* the parameter group tested before the error group
classify_query_parameter_first(query) ==
    LET query_lower == Lower(query)
    IN  IF parameter_patterns(query_lower) THEN "parameter"
        ELSE IF error_patterns(query_lower) THEN "error"
        ELSE IF procedure_patterns(query_lower) THEN "procedure"
        ELSE "general"

classify_query(query) ==
    LET query_lower == Lower(query)
    IN  IF error_patterns(query_lower) THEN "error"
        ELSE IF parameter_patterns(query_lower) THEN "parameter"
        ELSE IF procedure_patterns(query_lower) THEN "procedure"
        ELSE "general"

(***************************************************************************)
(* Chunks, hits and channel outputs                                        *)
(***************************************************************************)
ChunkIds == {"a", "b", "c"}

\* metadata.section_path of the chunk as stored in the dense payload
SectionOf(id) == IF id = "c" THEN "s2" ELSE "s1"

\* cosine similarities the dense backend reports, in tenths; the request
\* carries score_threshold = 0.0, so no hit is negative
DenseScores == {0, 5, 9}

\* BM25 scores the lexical backend reports, in tenths (a hit matched at
\* least one scoring clause: minimum_should_match = 1)
LexicalScores == {20, 100}

\* relevance the cross-encoder reports for one (query, text) pair
RerankScores == {0, 1}

NonIncreasing(scores) ==
    \A i \in 1..(Len(scores) - 1) : FracLeq(scores[i + 1], scores[i])

Occurrences(list, id) == Cardinality({i \in 1..Len(list) : list[i].id = id})

IdsOf(list) == {list[i].id : i \in 1..Len(list)}

\* VectorStore.search: one SearchResult per hit, best first.  Point ids are
\* abs(hash(chunk id)) under the salt of the inserting process, so one chunk
\* id can sit on as many points as there were processes; a request for more
\* hits than the collection stores returns the stored ones.
DenseOutputs(k) ==
    LET stored == (MaxRestarts + 1) * Cardinality(ChunkIds)
        n == IF k < 0 THEN 0 ELSE IF k < stored THEN k ELSE stored
        hits == [id : ChunkIds, s : DenseScores]
        raw == SeqsUpTo(hits, n)
    IN  { [i \in 1..Len(r) |->
              [id |-> r[i].id,
               score |-> Frac(r[i].s, 10),
               explanation |-> <<"Vector similarity", Fmt3(Frac(r[i].s, 10))>>,
               section_path |-> SectionOf(r[i].id)]] :
          r \in { x \in raw :
                    /\ \A i \in 1..(Len(x) - 1) : x[i + 1].s <= x[i].s
                    /\ \A id \in ChunkIds :
                          Cardinality({i \in 1..Len(x) : x[i].id = id})
                              <= MaxRestarts + 1 } }

\* LexicalSearch.search: one SearchResult per hit, best first.  Documents are
\* keyed by chunk id (_id), and section_path is not stored in the index; a
\* request for more hits than the index stores returns the stored ones.
LexicalOutputs(k) ==
    LET stored == Cardinality(ChunkIds)
        n == IF k < 0 THEN 0 ELSE IF k < stored THEN k ELSE stored
        hits == [id : ChunkIds, s : LexicalScores]
        raw == SeqsUpTo(hits, n)
    IN  { [i \in 1..Len(r) |->
              [id |-> r[i].id,
               score |-> Frac(r[i].s, 10),
               explanation |-> <<"BM25 score", Fmt3(Frac(r[i].s, 10))>>,
               section_path |-> ""]] :
          r \in { x \in raw :
                    /\ \A i \in 1..(Len(x) - 1) : x[i + 1].s <= x[i].s
                    /\ \A i, j \in 1..Len(x) : x[i].id = x[j].id => i = j } }

(***************************************************************************)
(* HybridRetriever: pure parts                                             *)
(***************************************************************************)
\* largest power of two that is <= m, for m >= 1
RECURSIVE Pow2Floor(_)
Pow2Floor(m) == IF m < 2 THEN 1 ELSE 2 * Pow2Floor(m \div 2)

\* int(n * 0.7) for an int n >= 0.  The literal 0.7 is the double
\* 0.7 - 0.2 * 2^-52; the product n * 0.7 is rounded to the nearest double
\* (ties to even) and int() truncates it.  The truncation differs from
\* floor(7n/10) only where 7n/10 is an integer m and the rounded product is
\* below m: the doubles below m are 2^-52 * Pow2Floor(m) apart, so this is
\* the case iff 0.2 * n > Pow2Floor(m) / 2 (n = 90, 170, 180, 330, ...).
Scale07(n) ==
    IF n > 0 /\ n % 10 = 0 /\ 2 * n > 5 * Pow2Floor((n * 7) \div 10)
    THEN (n * 7) \div 10 - 1
    ELSE (n * 7) \div 10

\* int(n * 1.3) for an int n >= 0.  The literal 1.3 is the double
\* 1.3 + 0.2 * 2^-52: the product is never below 13n/10
Scale13(n) == (n * 13) \div 10

\* k_dense, k_lexical of RetrievalSettings as shipped
DefaultKDense == 40
DefaultKLexical == 20

\* <<k_dense, k_lexical>> per query type; base_dense, base_lexical are
\* settings.retrieval.k_dense and settings.retrieval.k_lexical
_get_k_values(base_dense, base_lexical, qt) ==
    IF qt = "error" THEN << base_dense \div 2, base_lexical * 2 >>
    ELSE IF qt = "parameter" THEN << Scale07(base_dense), Scale13(base_lexical) >>
    ELSE IF qt = "procedure" THEN << Scale13(base_dense), Scale07(base_lexical) >>
    ELSE << base_dense, base_lexical >>

\* title_boost, breadcrumbs_boost, param_name_boost, error_code_boost of
\* RetrievalSettings: 1.4, 1.2, 2.0, 2.5
BaseBoosts ==
    [title |-> Frac(14, 10), breadcrumbs |-> Frac(12, 10),
     param_name |-> Frac(20, 10), error_code |-> Frac(25, 10)]

\* base_boosts[field] *= num/den
ScaleBoost(boosts, field, num, den) ==
    [boosts EXCEPT ![field] = Frac(boosts[field][1] * num, boosts[field][2] * den)]

ScaledBoosts(configured, qt) ==
    IF qt = "error" THEN ScaleBoost(configured, "error_code", 2, 1)
    ELSE IF qt = "parameter" THEN ScaleBoost(configured, "param_name", 3, 2)
    ELSE IF qt = "procedure" THEN ScaleBoost(configured, "title", 13, 10)
    ELSE configured

\* _get_boost_params scaling the settings' own fields in place
_get_boost_params_in_place(configured, qt) ==
    [returned |-> ScaledBoosts(configured, qt),
     settings |-> ScaledBoosts(configured, qt)]

\* _get_boost_params: base_boosts is a dict built anew from the settings'
\* fields on every call; returned is that dict, settings the fields after
\* the call
_get_boost_params(configured, qt) ==
    [returned |-> ScaledBoosts(configured, qt),
     settings |-> configured]

\* max([r.score for r in results], default=1.0)
RECURSIVE MaxScoreFrom(_, _, _)
MaxScoreFrom(list, i, best) ==
    IF i > Len(list) THEN best
    ELSE MaxScoreFrom(list, i + 1,
                      IF FracLt(best, list[i].score) THEN list[i].score ELSE best)

\* the channel maximum left at its default
MaxScoreDefault(list) == Frac(1, 1)

MaxScore(list) ==
    IF list = <<>> THEN Frac(1, 1) ELSE MaxScoreFrom(list, 2, list[1].score)

\* result.score / max_score (the caller has checked max_score # 0)
Normalize(score, max_score) == Frac(score[1] * max_score[2], score[2] * max_score[1])

\* seen_chunks[chunk_id]: the entry of combined last stored under the id
SeenIndex(combined, id) ==
    LET idx == {i \in 1..Len(combined) : combined[i].id = id}
    IN  CHOOSE i \in idx : \A j \in idx : j <= i

\* first loop of _combine_results: every dense result is appended
VectorLoop(vector_results, max_vector_score) ==
    [i \in 1..Len(vector_results) |->
        LET normalized_score == Normalize(vector_results[i].score, max_vector_score)
        IN  [vector_results[i] EXCEPT
                !.score = normalized_score,
                !.explanation = <<"Vector", Fmt3(normalized_score)>>]]

\* second loop of _combine_results, from lexical result j on
RECURSIVE LexicalLoop(_, _, _, _)
LexicalLoop(combined, lexical_results, j, max_lexical_score) ==
    IF j > Len(lexical_results) THEN combined
    ELSE
        LET result == lexical_results[j]
            normalized_score == Normalize(result.score, max_lexical_score)
        IN  IF result.id \in IdsOf(combined)
            THEN LET k == SeenIndex(combined, result.id)
                     combined_score == Blend(6, combined[k].score, 4, normalized_score)
                 IN  LexicalLoop(
                         [combined EXCEPT
                             ![k].score = combined_score,
                             ![k].explanation = <<"Hybrid", Fmt3(combined_score)>>],
                         lexical_results, j + 1, max_lexical_score)
            ELSE LexicalLoop(
                     Append(combined,
                            [result EXCEPT
                                !.score = normalized_score,
                                !.explanation = <<"Lexical", Fmt3(normalized_score)>>]),
                     lexical_results, j + 1, max_lexical_score)

\* list.sort(key=lambda x: x.score, reverse=True): stable, best first
RECURSIVE InsertDesc(_, _)
InsertDesc(sorted, r) ==
    IF sorted = <<>> THEN <<r>>
    ELSE IF FracLt(Head(sorted).score, r.score) THEN <<r>> \o sorted
    ELSE <<Head(sorted)>> \o InsertDesc(Tail(sorted), r)

RECURSIVE SortDescFrom(_, _, _)
SortDescFrom(list, i, sorted) ==
    IF i > Len(list) THEN sorted
    ELSE SortDescFrom(list, i + 1, InsertDesc(sorted, list[i]))

\* the sort left out
SortDescOmitted(list) == list

SortDesc(list) == SortDescFrom(list, 1, <<>>)

\* max() without its default: an empty channel list raises as well
CombineRaisesWithoutDefault(vector_results, lexical_results) ==
    \/ vector_results = <<>>
    \/ lexical_results = <<>>
    \/ MaxScore(vector_results)[1] = 0
    \/ MaxScore(lexical_results)[1] = 0

\* the division of the first loop or of the second loop is by zero
CombineRaises(vector_results, lexical_results) ==
    \/ vector_results # <<>> /\ MaxScore(vector_results)[1] = 0
    \/ lexical_results # <<>> /\ MaxScore(lexical_results)[1] = 0

\* the list before the final sort
CombineUnsorted(vector_results, lexical_results) ==
    LexicalLoop(VectorLoop(vector_results, MaxScore(vector_results)),
                lexical_results, 1, MaxScore(lexical_results))

_combine_results(vector_results, lexical_results) ==
    SortDesc(CombineUnsorted(vector_results, lexical_results))

\* search() reranks whatever the size of the fused list
NeedsRerankAlways(list) == TRUE

\* search(): if len(combined_results) > k_final
NeedsRerank(list) == Len(list) > KFinal

\* _rerank_results: if not self.reranker or len(results) <= 1: return results
\* (initialize() has loaded the reranker)
RerankBypass(list) == Len(list) <= 1

\* _rerank_results with the two weights exchanged
ApplyRerankWeightsSwapped(list, scores) ==
    SortDesc([i \in 1..Len(list) |->
        LET combined_score == Blend(7, list[i].score, 3, Frac(scores[i], 1))
        IN  [list[i] EXCEPT
                !.score = combined_score,
                !.explanation = <<"Reranked", Fmt3(combined_score)>>]])

\* second half of _rerank_results, given the cross-encoder's scores
ApplyRerank(list, scores) ==
    SortDesc([i \in 1..Len(list) |->
        LET combined_score == Blend(3, list[i].score, 7, Frac(scores[i], 1))
        IN  [list[i] EXCEPT
                !.score = combined_score,
                !.explanation = <<"Reranked", Fmt3(combined_score)>>]])

SectionCount(list, section) ==
    Cardinality({i \in 1..Len(list) :
        (IF list[i].section_path = "" THEN "unknown" ELSE list[i].section_path) = section})

\* loop of _diversify_results from result i on; counted holds the results
\* that incremented their section's counter
RECURSIVE DiversifyLoop(_, _, _, _)
DiversifyLoop(list, i, diversified, counted) ==
    IF i > Len(list) THEN diversified
    ELSE
        LET result == list[i]
            section_path == IF result.section_path = "" THEN "unknown"
                            ELSE result.section_path
        IN  IF SectionCount(counted, section_path) < MaxPerSection
            THEN DiversifyLoop(list, i + 1, Append(diversified, result),
                               Append(counted, result))
            ELSE IF Len(diversified) < KFinal
            THEN DiversifyLoop(list, i + 1, Append(diversified, result), counted)
            ELSE DiversifyLoop(list, i + 1, diversified, counted)

\* the loop without its elif branch: a result is kept only below the cap
RECURSIVE DiversifyCapOnlyLoop(_, _, _)
DiversifyCapOnlyLoop(list, i, diversified) ==
    IF i > Len(list) THEN diversified
    ELSE
        LET result == list[i]
            section_path == IF result.section_path = "" THEN "unknown"
                            ELSE result.section_path
        IN  IF SectionCount(diversified, section_path) < MaxPerSection
            THEN DiversifyCapOnlyLoop(list, i + 1, Append(diversified, result))
            ELSE DiversifyCapOnlyLoop(list, i + 1, diversified)

_diversify_results_cap_only(list) == DiversifyCapOnlyLoop(list, 1, <<>>)

_diversify_results(list) == DiversifyLoop(list, 1, <<>>, <<>>)

\* the await returns as soon as one of the two calls is done
GatherFirstCompleted(vector_task, lexical_task) ==
    vector_task = "ok" \/ lexical_task = "ok"

\* await asyncio.gather(vector_task, lexical_task) returns the two lists once
\* both calls are done
GatherDone(vector_task, lexical_task) ==
    vector_task = "ok" /\ lexical_task = "ok"

\* diversified_results[:top_k]
Truncate(list, k) == SubSeq(list, 1, IF k < Len(list) THEN k ELSE Len(list))

(***************************************************************************)
(* State                                                                   *)
(***************************************************************************)
VARIABLES
    \* QueryClassifier.classify_query: last argument and last return value
    cls_query, cls_result,
    \* HybridRetriever._get_k_values: the settings and the argument it runs
    \* with, and its return value
    kv_args, kv_result,
    \* HybridRetriever.search: position, arguments and locals of the call
    pc, query_type, top_k,
    vstat, lstat,               \* the two tasks of asyncio.gather
    rstat,                      \* the cross-encoder call in the executor
    rerank_input,               \* the list _rerank_results was last called with
    rerank_scores,              \* what reranker.predict returned for it
    settings_boosts,            \* the four *_boost fields of settings.retrieval
    boost_params,               \* boosts search() last passed to the lexical channel
    vector_results, lexical_results,
    lexical_error,              \* the lexical backend raised inside search()
    normalized,                 \* normalized_score values computed by combine
    results,                    \* combined_results / reranked_results (one list object)
    diversified, returned,
    error,                      \* exception search() ended with, or "none"
    \* process and backends
    hash_seed,                  \* salt of str.__hash__ in the running process
    points,                     \* Qdrant collection: point id and payload
    docs,                       \* OpenSearch index: _id of each document
    \* HybridRetriever.add_chunks: position, argument and locals of the call
    add_pc, batch, urls_left, cur_url,
    vdel, ldel,                 \* the two tasks of delete_chunks_by_url's gather
    delete_failed,              \* a delete of this call raised in its backend
    vadd, ladd,                 \* the two tasks of add_chunks' gather
    \* callers of the index
    first_call,                 \* get_stats counts seen after the first of two
                                \* equal add_chunks calls in a row
    healing,                    \* the running add_chunks repeats a batch whose
                                \* last ingestion broke off and left the two
                                \* channels different
    lookup,                     \* last get_chunk_by_id call and its outcome
    removal,                    \* last delete_chunk call and its outcome
    \* requests served at the same time by the one retriever of the process
    calls,                      \* add_chunks calls: position and locals of each
    observed                    \* what the channel calls of a search() saw

classifier_vars == << cls_query, cls_result >>

kvalue_vars == << kv_args, kv_result >>

search_vars ==
    << pc, query_type, top_k, vstat, lstat, rstat, rerank_input, rerank_scores,
       settings_boosts, boost_params, vector_results,
       lexical_results, lexical_error, normalized, results, diversified, returned, error >>

index_vars ==
    << hash_seed, points, docs, add_pc, batch, urls_left, cur_url, vdel, ldel,
       delete_failed, vadd, ladd, first_call, healing, lookup, removal, calls,
       observed >>

\* the call of add_chunks followed on its own, and its callers
one_call_vars ==
    << add_pc, batch, urls_left, cur_url, vdel, ldel, delete_failed, vadd, ladd,
       first_call, healing, lookup, removal >>

vars == << classifier_vars, kvalue_vars, search_vars, index_vars >>

NoNormalized == [vector |-> <<>>, lexical |-> <<>>]

\* no boosts computed yet
NoBoosts ==
    [title |-> Frac(0, 1), breadcrumbs |-> Frac(0, 1),
     param_name |-> Frac(0, 1), error_code |-> Frac(0, 1)]

NoCall == [batch |-> {}, points |-> 0, docs |-> 0, calls |-> 0]

NoLookup == [id |-> "none", dense |-> "none", lexical |-> "none", result |-> "none"]

\* _get_k_values has not returned
NoKValues == << -1, -1 >>

NoRemoval ==
    [id |-> "none", indexed |-> FALSE, stored |-> {}, addressed |-> 0,
     dense |-> "none", lexical |-> "none", result |-> "none",
     dense_left |-> {}, lexical_left |-> FALSE]

\* two ingest requests in flight
Calls == {1, 2}

IdleCall ==
    [pc |-> "idle", batch |-> {}, vdel |-> "none", ldel |-> "none",
     vadd |-> "none", ladd |-> "none",
     before |-> [dense |-> {}, lexical |-> {}], peer |-> "idle"]

\* the channel call of the search has not run
NotRead == [read |-> FALSE, ids |-> {}, before |-> {}, after |-> {}, alone |-> FALSE]

InitClassifier ==
    /\ cls_query = <<>>
    /\ cls_result = "none"

InitKValues ==
    /\ kv_args = [k_dense |-> KDense, k_lexical |-> KLexical, query_type |-> "general"]
    /\ kv_result = NoKValues

InitSearch ==
    /\ pc = "idle"
    /\ query_type = "general"
    /\ top_k = KFinal
    /\ vstat = "none"
    /\ lstat = "none"
    /\ rstat = "none"
    /\ rerank_input = <<>>
    /\ rerank_scores = <<>>
    /\ settings_boosts = BaseBoosts
    /\ boost_params = NoBoosts
    /\ vector_results = <<>>
    /\ lexical_results = <<>>
    /\ lexical_error = FALSE
    /\ normalized = NoNormalized
    /\ results = <<>>
    /\ diversified = <<>>
    /\ returned = <<>>
    /\ error = "none"

InitIndex ==
    /\ hash_seed = 0
    /\ points = {}
    /\ docs = {}
    /\ add_pc = "idle"
    /\ batch = {}
    /\ urls_left = {}
    /\ cur_url = "none"
    /\ vdel = "none"
    /\ ldel = "none"
    /\ delete_failed = FALSE
    /\ vadd = "none"
    /\ ladd = "none"
    /\ first_call = NoCall
    /\ healing = FALSE
    /\ lookup = NoLookup
    /\ removal = NoRemoval
    /\ calls = [c \in Calls |-> IdleCall]
    /\ observed = [dense |-> NotRead, lexical |-> NotRead]

Init == InitClassifier /\ InitKValues /\ InitSearch /\ InitIndex

(***************************************************************************)
(* QueryClassifier.classify_query as an operation                          *)
(***************************************************************************)
\* the classifier is a pure function: its argument is drawn at the start
InitClassify ==
    /\ cls_query \in Queries
    /\ cls_result = "none"
    /\ InitKValues
    /\ InitSearch
    /\ InitIndex

Classify ==
    /\ cls_query # <<>> /\ cls_result = "none"
    /\ cls_result' = classify_query(cls_query)
    /\ UNCHANGED << cls_query, kvalue_vars, search_vars, index_vars >>

(***************************************************************************)
(* HybridRetriever._get_k_values as an operation                           *)
(***************************************************************************)
\* values k_dense and k_lexical are configured with: small ones, the
\* shipped defaults, and larger ones
KSettings == (1..MaxBase) \cup {DefaultKDense, DefaultKLexical} \cup {90, 170}

\* the method is a pure function of the settings and its argument, which
\* are drawn at the start
InitGetKValues ==
    /\ kv_args \in [k_dense : KSettings, k_lexical : KSettings, query_type : QueryType]
    /\ kv_result = NoKValues
    /\ InitClassifier
    /\ InitSearch
    /\ InitIndex

GetKValues ==
    /\ kv_result = NoKValues
    /\ kv_result' = _get_k_values(kv_args.k_dense, kv_args.k_lexical, kv_args.query_type)
    /\ UNCHANGED << kv_args, classifier_vars, search_vars, index_vars >>

(***************************************************************************)
(* HybridRetriever.search                                                  *)
(***************************************************************************)
\* query types search() can run under: given by the caller or classified
SearchQueryTypes == QueryType \cup {classify_query(q) : q \in Queries}

\* entry of search(): top_k, query_type settled, both channel calls issued
SearchStart ==
    /\ pc \in {"idle", "done", "error", "direct_done", "direct_error"}
    /\ pc' = "fetching"
    /\ vstat' = "pending"
    /\ lstat' = "pending"
    /\ rstat' = "none"
    /\ rerank_input' = <<>>
    /\ rerank_scores' = <<>>
    /\ \E qt \in SearchQueryTypes, k \in 1..MaxTopK :
        LET boosts == _get_boost_params(settings_boosts, qt)
        IN  /\ query_type' = qt
            /\ top_k' = k
            /\ boost_params' = boosts.returned
            /\ settings_boosts' = boosts.settings
    /\ vector_results' = <<>>
    /\ lexical_results' = <<>>
    /\ lexical_error' = FALSE
    /\ normalized' = NoNormalized
    /\ results' = <<>>
    /\ diversified' = <<>>
    /\ returned' = <<>>
    /\ error' = "none"
    /\ UNCHANGED << classifier_vars, kvalue_vars, index_vars >>

\* VectorStore.search returns its hits
VectorSearchReturn ==
    /\ pc = "fetching" /\ vstat = "pending"
    /\ \E out \in DenseOutputs(_get_k_values(KDense, KLexical, query_type)[1]) :
        vector_results' = out
    /\ vstat' = "ok"
    /\ UNCHANGED << classifier_vars, kvalue_vars, index_vars, settings_boosts, boost_params, rerank_scores,
                    rerank_input, pc, query_type, top_k, lstat,
                    rstat,
                    lexical_results, lexical_error, normalized, results,
                    diversified, returned, error >>

\* VectorStore.search raises (embedding or backend call failed): no handler
VectorSearchRaise ==
    /\ pc = "fetching" /\ vstat = "pending"
    /\ vstat' = "failed"
    /\ UNCHANGED << classifier_vars, kvalue_vars, index_vars, settings_boosts, boost_params, rerank_scores,
                    rerank_input, pc, query_type, top_k, lstat,
                    rstat,
                    vector_results, lexical_results, lexical_error, normalized,
                    results, diversified, returned, error >>

\* LexicalSearch.search returns its hits
LexicalSearchReturn ==
    /\ pc = "fetching" /\ lstat = "pending"
    /\ \E out \in LexicalOutputs(_get_k_values(KDense, KLexical, query_type)[2]) :
        lexical_results' = out
    /\ lstat' = "ok"
    /\ UNCHANGED << classifier_vars, kvalue_vars, index_vars, settings_boosts, boost_params, rerank_scores,
                    rerank_input, pc, query_type, top_k, vstat,
                    rstat,
                    vector_results, lexical_error, normalized, results,
                    diversified, returned, error >>

\* the backend call of LexicalSearch.search raises: except Exception: return []
LexicalSearchSwallow ==
    /\ pc = "fetching" /\ lstat = "pending"
    /\ lexical_results' = <<>>
    /\ lexical_error' = TRUE
    /\ lstat' = "ok"
    /\ UNCHANGED << classifier_vars, kvalue_vars, index_vars, settings_boosts, boost_params, rerank_scores,
                    rerank_input, pc, query_type, top_k, vstat,
                    rstat,
                    vector_results, normalized, results, diversified,
                    returned, error >>

\* asyncio.gather re-raises the failure of the dense task
GatherRaise ==
    /\ pc = "fetching" /\ vstat = "failed"
    /\ pc' = "error"
    /\ error' = "ChannelUnavailable"
    /\ UNCHANGED << classifier_vars, kvalue_vars, index_vars, settings_boosts, boost_params, rerank_scores,
                    rerank_input, query_type, top_k, vstat, lstat,
                    rstat,
                    vector_results, lexical_results, lexical_error, normalized,
                    results, diversified, returned >>

\* both tasks done: _get_candidates returns and _combine_results runs
Combine ==
    /\ pc = "fetching" /\ GatherDone(vstat, lstat)
    /\ IF CombineRaises(vector_results, lexical_results)
       THEN /\ pc' = "error"
            /\ error' = "ZeroDivisionError"
            /\ UNCHANGED << results, normalized >>
       ELSE /\ pc' = "combined"
            /\ results' = _combine_results(vector_results, lexical_results)
            /\ normalized' =
                 [vector |-> [i \in 1..Len(vector_results) |->
                                Normalize(vector_results[i].score,
                                          MaxScore(vector_results))],
                  lexical |-> [i \in 1..Len(lexical_results) |->
                                Normalize(lexical_results[i].score,
                                          MaxScore(lexical_results))]]
            /\ UNCHANGED error
    /\ UNCHANGED << classifier_vars, kvalue_vars, index_vars, settings_boosts, boost_params, rerank_scores,
                    rerank_input, query_type, top_k, vstat, lstat,
                    rstat,
                    vector_results, lexical_results, lexical_error,
                    diversified, returned >>

\* search(): len(combined_results) <= k_final, or _rerank_results returns at
\* once because the list has at most one element
RerankSkip ==
    /\ pc = "combined"
    /\ ~NeedsRerank(results) \/ RerankBypass(results)
    /\ pc' = "reranked"
    /\ UNCHANGED << classifier_vars, kvalue_vars, index_vars, settings_boosts, boost_params, rerank_scores,
                    rerank_input, query_type, top_k, vstat, lstat,
                    rstat,
                    vector_results, lexical_results, lexical_error, normalized,
                    results, diversified, returned, error >>

\* _rerank_results hands the pairs to the cross-encoder in the executor
RerankCall ==
    /\ pc = "combined"
    /\ NeedsRerank(results) /\ ~RerankBypass(results)
    /\ pc' = "reranking"
    /\ rstat' = "pending"
    /\ rerank_input' = results
    /\ UNCHANGED << classifier_vars, kvalue_vars, index_vars, settings_boosts, boost_params, rerank_scores,
                    query_type, top_k, vstat, lstat,
                    vector_results, lexical_results, lexical_error, normalized,
                    results, diversified, returned, error >>

\* reranker.predict returns one score per pair
RerankReturn ==
    /\ pc = "reranking"
    /\ \E scores \in [1..Len(results) -> RerankScores] :
        /\ rerank_scores' = scores
        /\ results' = ApplyRerank(results, scores)
    /\ rstat' = "ok"
    /\ pc' = "reranked"
    /\ UNCHANGED << classifier_vars, kvalue_vars, index_vars, settings_boosts, boost_params,
                    rerank_input, query_type, top_k, vstat, lstat,
                    vector_results, lexical_results, lexical_error, normalized,
                    diversified, returned, error >>

\* reranker.predict raises: no handler in _rerank_results nor in search
RerankRaise ==
    /\ pc = "reranking"
    /\ pc' = "error"
    /\ error' = "ScoringFailure"
    /\ rstat' = "failed"
    /\ UNCHANGED << classifier_vars, kvalue_vars, index_vars, settings_boosts, boost_params, rerank_scores,
                    rerank_input, query_type, top_k, vstat, lstat,
                    vector_results, lexical_results, lexical_error, normalized,
                    results, diversified, returned >>

Diversify ==
    /\ pc = "reranked"
    /\ diversified' = _diversify_results(results)
    /\ pc' = "diversified"
    /\ UNCHANGED << classifier_vars, kvalue_vars, index_vars, settings_boosts, boost_params, rerank_scores,
                    rerank_input, query_type, top_k, vstat, lstat,
                    rstat,
                    vector_results, lexical_results, lexical_error, normalized,
                    results, returned, error >>

\* return diversified_results[:top_k]
SearchReturn ==
    /\ pc = "diversified"
    /\ returned' = Truncate(diversified, top_k)
    /\ pc' = "done"
    /\ UNCHANGED << classifier_vars, kvalue_vars, index_vars, settings_boosts, boost_params, rerank_scores,
                    rerank_input, query_type, top_k, vstat, lstat,
                    rstat,
                    vector_results, lexical_results, lexical_error, normalized,
                    results, diversified, error >>

(***************************************************************************)
(* HybridRetriever._rerank_results called on its own (as the unit tests do) *)
(***************************************************************************)
\* fused lists a caller hands to _rerank_results: none, one or more results
RerankInputs ==
    { _combine_results(x[1], x[2]) :
        x \in { y \in DenseOutputs(KDense) \X LexicalOutputs(1) :
                   ~CombineRaises(y[1], y[2]) } }

\* entry of _rerank_results on the initialized retriever; the method reads
\* nothing but its arguments and the reranker
RerankDirectCall ==
    /\ pc = "idle"
    /\ \E list \in RerankInputs :
        /\ rerank_input' = list
        /\ results' = list
    /\ pc' = "direct"
    /\ query_type' = "general"
    /\ top_k' = KFinal
    /\ vstat' = "none"
    /\ lstat' = "none"
    /\ rstat' = "none"
    /\ vector_results' = <<>>
    /\ lexical_results' = <<>>
    /\ lexical_error' = FALSE
    /\ normalized' = NoNormalized
    /\ diversified' = <<>>
    /\ returned' = <<>>
    /\ error' = "none"
    /\ rerank_scores' = <<>>
    /\ UNCHANGED << classifier_vars, kvalue_vars, index_vars, settings_boosts, boost_params >>

\* if not self.reranker or len(results) <= 1: return results
RerankDirectBypass ==
    /\ pc = "direct"
    /\ RerankBypass(results)
    /\ pc' = "direct_done"
    /\ UNCHANGED << classifier_vars, kvalue_vars, index_vars, settings_boosts, boost_params, rerank_scores,
                    rerank_input, query_type, top_k,
                    vstat, lstat, rstat, vector_results, lexical_results,
                    lexical_error, normalized, results, diversified, returned,
                    error >>

\* the pairs are handed to the cross-encoder in the executor
RerankDirectPredict ==
    /\ pc = "direct"
    /\ ~RerankBypass(results)
    /\ pc' = "direct_reranking"
    /\ rstat' = "pending"
    /\ UNCHANGED << classifier_vars, kvalue_vars, index_vars, settings_boosts, boost_params, rerank_scores,
                    rerank_input, query_type, top_k,
                    vstat, lstat, vector_results, lexical_results,
                    lexical_error, normalized, results, diversified, returned,
                    error >>

\* reranker.predict returns one score per pair
RerankDirectReturn ==
    /\ pc = "direct_reranking"
    /\ \E scores \in [1..Len(results) -> RerankScores] :
        /\ rerank_scores' = scores
        /\ results' = ApplyRerank(results, scores)
    /\ rstat' = "ok"
    /\ pc' = "direct_done"
    /\ UNCHANGED << classifier_vars, kvalue_vars, index_vars, settings_boosts, boost_params,
                    rerank_input, query_type, top_k,
                    vstat, lstat, vector_results, lexical_results,
                    lexical_error, normalized, diversified, returned, error >>

\* reranker.predict raises: _rerank_results has no handler
RerankDirectRaise ==
    /\ pc = "direct_reranking"
    /\ rstat' = "failed"
    /\ pc' = "direct_error"
    /\ error' = "ScoringFailure"
    /\ UNCHANGED << classifier_vars, kvalue_vars, index_vars, settings_boosts, boost_params, rerank_scores,
                    rerank_input, query_type, top_k,
                    vstat, lstat, vector_results, lexical_results,
                    lexical_error, normalized, results, diversified, returned >>

(***************************************************************************)
(* Index lifecycle: HybridRetriever.add_chunks over both channels          *)
(***************************************************************************)
\* metadata.source_url of the chunk
SourceUrlOf(id) == IF id = "c" THEN "Y" ELSE "X"

\* hash(chunk_id) of Python: a signed value that depends on the process salt
StrHash(seed, id) ==
    LET base == CASE id = "a" -> 11 [] id = "b" -> 12 [] OTHER -> 13
        value == base + 10 * seed
    IN  IF (value + seed) % 2 = 0 THEN -value ELSE value

\* PointStruct(id=abs(hash(chunk.metadata.id)), payload=...)
PointOf(seed, id) == [point_id |-> Abs(StrHash(seed, id)), id |-> id]

\* async_client.upsert: a point replaces the point with the same point id
Upsert(collection, new_points) ==
    {p \in collection : \A n \in new_points : n.point_id # p.point_id}
        \cup new_points

\* ids of the chunks a channel holds for a source URL
PointsOfUrl(collection, url) == {p \in collection : SourceUrlOf(p.id) = url}
DocsOfUrl(index, url) == {id \in index : SourceUrlOf(id) = url}

\* the two channels hold different chunk sets for a source URL of the chunks
ChannelsDiffer(collection, index, chunks) ==
    \E url \in {SourceUrlOf(id) : id \in chunks} :
        {p.id : p \in PointsOfUrl(collection, url)} # DocsOfUrl(index, url)

\* get_stats: total_points of the collection, document count of the index
get_stats(collection, index) ==
    [points |-> Cardinality(collection), docs |-> Cardinality(index)]

\* entry of add_chunks: unique_urls collected from the batch
AddStart ==
    /\ add_pc \in {"idle", "done", "error"}
    /\ vadd # "pending" /\ ladd # "pending"
    /\ \E chunks \in SUBSET ChunkIds :
        /\ batch' = chunks
        /\ urls_left' = {SourceUrlOf(id) : id \in chunks}
        /\ first_call' = IF first_call.calls = 1 /\ first_call.batch = chunks
                          THEN first_call ELSE NoCall
        /\ healing' = (/\ add_pc = "error"
                       /\ chunks = batch
                       /\ ChannelsDiffer(points, docs, chunks))
    /\ lookup' = NoLookup
    /\ removal' = NoRemoval
    /\ add_pc' = "deleting"
    /\ cur_url' = "none"
    /\ vdel' = "none"
    /\ ldel' = "none"
    /\ delete_failed' = FALSE
    /\ vadd' = "none"
    /\ ladd' = "none"
    /\ UNCHANGED << classifier_vars, kvalue_vars, search_vars, calls, observed, hash_seed, points, docs >>

\* for url in unique_urls: delete_chunks_by_url(url) issues both deletes
DeleteBegin ==
    /\ add_pc = "deleting" /\ cur_url = "none"
    /\ \E url \in urls_left :
        /\ cur_url' = url
        /\ urls_left' = urls_left \ {url}
    /\ vdel' = "pending"
    /\ ldel' = "pending"
    /\ UNCHANGED << classifier_vars, kvalue_vars, search_vars, calls, observed, removal, first_call, healing, lookup, hash_seed, points, docs,
                    add_pc, batch, delete_failed, vadd, ladd >>

\* VectorStore.delete_chunks_by_url: count, then delete by filter
VectorDelete ==
    /\ add_pc = "deleting" /\ vdel = "pending"
    /\ points' = points \ PointsOfUrl(points, cur_url)
    /\ vdel' = "ok"
    /\ UNCHANGED << classifier_vars, kvalue_vars, search_vars, calls, observed, removal, first_call, healing, lookup, hash_seed, docs, add_pc,
                    batch, urls_left, cur_url, ldel, delete_failed, vadd, ladd >>

\* VectorStore.delete_chunks_by_url: except Exception: return 0
VectorDeleteSwallow ==
    /\ add_pc = "deleting" /\ vdel = "pending"
    /\ vdel' = "failed"
    /\ delete_failed' = TRUE
    /\ UNCHANGED << classifier_vars, kvalue_vars, search_vars, calls, observed, removal, first_call, healing, lookup, hash_seed, points, docs,
                    add_pc, batch, urls_left, cur_url, ldel, vadd, ladd >>

\* LexicalSearch.delete_chunks_by_url: count, then delete_by_query
LexicalDelete ==
    /\ add_pc = "deleting" /\ ldel = "pending"
    /\ docs' = docs \ DocsOfUrl(docs, cur_url)
    /\ ldel' = "ok"
    /\ UNCHANGED << classifier_vars, kvalue_vars, search_vars, calls, observed, removal, first_call, healing, lookup, hash_seed, points, add_pc,
                    batch, urls_left, cur_url, vdel, delete_failed, vadd, ladd >>

\* LexicalSearch.delete_chunks_by_url: except Exception: return 0
LexicalDeleteSwallow ==
    /\ add_pc = "deleting" /\ ldel = "pending"
    /\ ldel' = "failed"
    /\ delete_failed' = TRUE
    /\ UNCHANGED << classifier_vars, kvalue_vars, search_vars, calls, observed, removal, first_call, healing, lookup, hash_seed, points, docs,
                    add_pc, batch, urls_left, cur_url, vdel, vadd, ladd >>

\* gather of delete_chunks_by_url returns the two counts
DeleteEnd ==
    /\ add_pc = "deleting" /\ cur_url # "none"
    /\ vdel \in {"ok", "failed"} /\ ldel \in {"ok", "failed"}
    /\ cur_url' = "none"
    /\ vdel' = "none"
    /\ ldel' = "none"
    /\ UNCHANGED << classifier_vars, kvalue_vars, search_vars, calls, observed, removal, first_call, healing, lookup, hash_seed, points, docs,
                    add_pc, batch, urls_left, delete_failed, vadd, ladd >>

\* every URL handled: both inserts are issued
InsertBegin ==
    /\ add_pc = "deleting" /\ cur_url = "none" /\ urls_left = {}
    /\ add_pc' = "inserting"
    /\ vadd' = "pending"
    /\ ladd' = "pending"
    /\ UNCHANGED << classifier_vars, kvalue_vars, search_vars, calls, observed, removal, first_call, healing, lookup, hash_seed, points, docs,
                    batch, urls_left, cur_url, vdel, ldel, delete_failed >>

\* VectorStore.add_chunks: embeddings, then one upsert (batch below 100)
VectorAdd ==
    /\ vadd = "pending"
    /\ points' = Upsert(points, {PointOf(hash_seed, id) : id \in batch})
    /\ vadd' = "ok"
    /\ UNCHANGED << classifier_vars, kvalue_vars, search_vars, calls, observed, removal, first_call, healing, lookup, hash_seed, docs, add_pc,
                    batch, urls_left, cur_url, vdel, ldel, delete_failed, ladd >>

\* VectorStore.add_chunks: except Exception: raise
VectorAddRaise ==
    /\ vadd = "pending" /\ batch # {}
    /\ vadd' = "failed"
    /\ UNCHANGED << classifier_vars, kvalue_vars, search_vars, calls, observed, removal, first_call, healing, lookup, hash_seed, points, docs,
                    add_pc, batch, urls_left, cur_url, vdel, ldel,
                    delete_failed, ladd >>

\* LexicalSearch.add_chunks: bulk insert keyed by chunk id
LexicalAdd ==
    /\ ladd = "pending"
    /\ docs' = docs \cup batch
    /\ ladd' = "ok"
    /\ UNCHANGED << classifier_vars, kvalue_vars, search_vars, calls, observed, removal, first_call, healing, lookup, hash_seed, points, add_pc,
                    batch, urls_left, cur_url, vdel, ldel, delete_failed, vadd >>

\* LexicalSearch.add_chunks: except Exception: raise
LexicalAddRaise ==
    /\ ladd = "pending" /\ batch # {}
    /\ ladd' = "failed"
    /\ UNCHANGED << classifier_vars, kvalue_vars, search_vars, calls, observed, removal, first_call, healing, lookup, hash_seed, points, docs,
                    add_pc, batch, urls_left, cur_url, vdel, ldel,
                    delete_failed, vadd >>

\* gather of add_chunks: both inserts done, add_chunks returns
AddReturn ==
    /\ add_pc = "inserting" /\ vadd = "ok" /\ ladd = "ok"
    /\ add_pc' = "done"
    /\ first_call' =
          IF first_call.calls = 0
          THEN [batch |-> batch,
                points |-> get_stats(points, docs).points,
                docs |-> get_stats(points, docs).docs,
                calls |-> 1]
          ELSE [first_call EXCEPT !.calls = 2]
    /\ UNCHANGED << classifier_vars, kvalue_vars, search_vars, calls, observed, removal, healing, lookup, hash_seed, points, docs,
                    batch, urls_left, cur_url, vdel, ldel, delete_failed,
                    vadd, ladd >>

\* gather of add_chunks re-raises the first failure; the other insert is
\* not cancelled
AddRaise ==
    /\ add_pc = "inserting" /\ (vadd = "failed" \/ ladd = "failed")
    /\ add_pc' = "error"
    /\ first_call' = NoCall
    /\ UNCHANGED << classifier_vars, kvalue_vars, search_vars, calls, observed, removal, healing, lookup, hash_seed, points, docs,
                    batch, urls_left, cur_url, vdel, ldel, delete_failed,
                    vadd, ladd >>

\* the process is restarted between two calls: str hashes get a new salt,
\* the backends keep their data
Restart ==
    /\ add_pc \in {"idle", "done", "error"}
    /\ vadd # "pending" /\ ladd # "pending"
    /\ hash_seed < MaxRestarts
    /\ hash_seed' = hash_seed + 1
    /\ add_pc' = "idle"
    /\ batch' = {}
    /\ delete_failed' = FALSE
    /\ vadd' = "none"
    /\ ladd' = "none"
    /\ lookup' = NoLookup
    /\ removal' = NoRemoval
    /\ UNCHANGED << classifier_vars, kvalue_vars, search_vars, calls, observed, first_call, healing, points,
                    docs, urls_left, cur_url, vdel, ldel >>

\* the process dies inside add_chunks and is started again: the call and its
\* tasks are gone, the backends keep what they had applied, and the caller
\* still has the batch
Crash ==
    /\ add_pc \in {"deleting", "inserting"}
    /\ hash_seed < MaxRestarts
    /\ hash_seed' = hash_seed + 1
    /\ add_pc' = "error"
    /\ urls_left' = {}
    /\ cur_url' = "none"
    /\ vdel' = "none"
    /\ ldel' = "none"
    /\ delete_failed' = FALSE
    /\ vadd' = "none"
    /\ ladd' = "none"
    /\ first_call' = NoCall
    /\ UNCHANGED << classifier_vars, kvalue_vars, search_vars, calls, observed, removal, healing, lookup, points, docs,
                    batch >>

\* VectorStore.get_chunk_by_id: retrieve(ids=[hash(chunk_id)]); a negative
\* id is no point id of the collection
DenseGet(collection, seed, id) ==
    {p \in collection : p.point_id = StrHash(seed, id)}

\* HybridRetriever.get_chunk_by_id: the dense channel, then the lexical one
\* if the dense channel gave nothing; each channel turns an exception of its
\* backend call into None
GetChunkById ==
    /\ add_pc \in {"idle", "done", "error"}
    /\ vadd # "pending" /\ ladd # "pending"
    /\ \E id \in ChunkIds, dense_answers \in BOOLEAN, lexical_answers \in BOOLEAN :
        LET dense == IF ~dense_answers THEN "raised"
                     ELSE IF DenseGet(points, hash_seed, id) # {} THEN "found"
                     ELSE "not_found"
            lexical == IF dense = "found" THEN "not_asked"
                       ELSE IF ~lexical_answers THEN "raised"
                       ELSE IF id \in docs THEN "found"
                       ELSE "not_found"
        IN  lookup' = [id |-> id, dense |-> dense, lexical |-> lexical,
                       result |-> IF dense = "found" THEN "dense"
                                  ELSE IF lexical = "found" THEN "lexical"
                                  ELSE "null"]
    /\ UNCHANGED << classifier_vars, kvalue_vars, search_vars, calls, observed, removal, first_call, healing, hash_seed,
                    points, docs, add_pc, batch, urls_left, cur_url, vdel, ldel,
                    delete_failed, vadd, ladd >>

\* VectorStore.delete_chunk: delete(points=[hash(chunk_id)]); deleting an
\* id no point has is no error of the collection
DenseDelete(collection, seed, id) ==
    {p \in collection : p.point_id # StrHash(seed, id)}

\* a negative value is no point id: the delete request is rejected
DenseDeleteRejected(seed, id) == StrHash(seed, id) < 0

\* LexicalSearch.delete_chunk: delete(id=chunk_id)
LexicalDeleteOne(index, id) == index \ {id}

\* HybridRetriever.delete_chunk: the dense channel, then the lexical one;
\* each channel turns an exception of its backend call into False.  The
\* lexical backend answers a delete of a missing document with an error.
DeleteChunk ==
    /\ add_pc \in {"idle", "done", "error"}
    /\ vadd # "pending" /\ ladd # "pending"
    /\ \E id \in ChunkIds, dense_answers \in BOOLEAN, lexical_answers \in BOOLEAN :
        LET vector_success == dense_answers /\ ~DenseDeleteRejected(hash_seed, id)
            lexical_success == lexical_answers /\ id \in docs
            collection == IF vector_success
                          THEN DenseDelete(points, hash_seed, id) ELSE points
            index == IF lexical_success THEN LexicalDeleteOne(docs, id) ELSE docs
        IN  /\ points' = collection
            /\ docs' = index
            /\ removal' =
                 [id |-> id,
                  indexed |-> (id \in docs /\ \E p \in points : p.id = id),
                  stored |-> {p.point_id : p \in {q \in points : q.id = id}},
                  addressed |-> StrHash(hash_seed, id),
                  dense |-> IF vector_success THEN "ok" ELSE "raised",
                  lexical |-> IF lexical_success THEN "ok" ELSE "raised",
                  result |-> IF vector_success /\ lexical_success
                             THEN "true" ELSE "false",
                  dense_left |-> {p.point_id : p \in {q \in collection : q.id = id}},
                  lexical_left |-> (id \in index)]
    /\ lookup' = NoLookup
    /\ UNCHANGED << classifier_vars, kvalue_vars, search_vars, calls, observed, first_call, healing,
                    hash_seed, add_pc, batch, urls_left, cur_url, vdel, ldel,
                    delete_failed, vadd, ladd >>

(***************************************************************************)
(* Requests served concurrently: the ingest router awaits add_chunks of    *)
(* the shared retriever for every request, without a lock; the backend     *)
(* calls of this part all succeed                                          *)
(***************************************************************************)
\* the source URL the requests ingest, and its chunks
IngestedUrl == "X"
UrlChunks == {id \in ChunkIds : SourceUrlOf(id) = IngestedUrl}

Peer(c) == CHOOSE d \in Calls : d # c

\* chunk ids a channel holds for the URL
DenseIdsOfUrl(collection) == {p.id : p \in PointsOfUrl(collection, IngestedUrl)}

\* entry of add_chunks up to the gather of delete_chunks_by_url for the one
\* URL of the batch
ConcAddStart(c) ==
    /\ calls[c].pc = "idle"
    /\ \E chunks \in (SUBSET UrlChunks) \ {{}} :
        calls' = [calls EXCEPT ![c] =
                    [pc |-> "deleting", batch |-> chunks,
                     vdel |-> "pending", ldel |-> "pending",
                     vadd |-> "none", ladd |-> "none",
                     before |-> [dense |-> DenseIdsOfUrl(points),
                                 lexical |-> DocsOfUrl(docs, IngestedUrl)],
                     peer |-> calls[Peer(c)].pc]]
    /\ UNCHANGED << classifier_vars, kvalue_vars, search_vars, one_call_vars,
                    hash_seed, points, docs, observed >>

\* VectorStore.delete_chunks_by_url of call c
ConcVectorDelete(c) ==
    /\ calls[c].pc = "deleting" /\ calls[c].vdel = "pending"
    /\ points' = points \ PointsOfUrl(points, IngestedUrl)
    /\ calls' = [calls EXCEPT ![c].vdel = "ok"]
    /\ UNCHANGED << classifier_vars, kvalue_vars, search_vars, one_call_vars,
                    hash_seed, docs, observed >>

\* LexicalSearch.delete_chunks_by_url of call c
ConcLexicalDelete(c) ==
    /\ calls[c].pc = "deleting" /\ calls[c].ldel = "pending"
    /\ docs' = docs \ DocsOfUrl(docs, IngestedUrl)
    /\ calls' = [calls EXCEPT ![c].ldel = "ok"]
    /\ UNCHANGED << classifier_vars, kvalue_vars, search_vars, one_call_vars,
                    hash_seed, points, observed >>

\* both deletes of call c returned: its two inserts are issued
ConcInsertBegin(c) ==
    /\ calls[c].pc = "deleting"
    /\ calls[c].vdel = "ok" /\ calls[c].ldel = "ok"
    /\ calls' = [calls EXCEPT ![c].pc = "inserting",
                              ![c].vadd = "pending", ![c].ladd = "pending"]
    /\ UNCHANGED << classifier_vars, kvalue_vars, search_vars, one_call_vars,
                    hash_seed, points, docs, observed >>

\* VectorStore.add_chunks of call c
ConcVectorAdd(c) ==
    /\ calls[c].pc = "inserting" /\ calls[c].vadd = "pending"
    /\ points' = Upsert(points, {PointOf(hash_seed, id) : id \in calls[c].batch})
    /\ calls' = [calls EXCEPT ![c].vadd = "ok"]
    /\ UNCHANGED << classifier_vars, kvalue_vars, search_vars, one_call_vars,
                    hash_seed, docs, observed >>

\* LexicalSearch.add_chunks of call c
ConcLexicalAdd(c) ==
    /\ calls[c].pc = "inserting" /\ calls[c].ladd = "pending"
    /\ docs' = docs \cup calls[c].batch
    /\ calls' = [calls EXCEPT ![c].ladd = "ok"]
    /\ UNCHANGED << classifier_vars, kvalue_vars, search_vars, one_call_vars,
                    hash_seed, points, observed >>

\* add_chunks of call c returns
ConcAddReturn(c) ==
    /\ calls[c].pc = "inserting"
    /\ calls[c].vadd = "ok" /\ calls[c].ladd = "ok"
    /\ calls' = [calls EXCEPT ![c].pc = "done"]
    /\ UNCHANGED << classifier_vars, kvalue_vars, search_vars, one_call_vars,
                    hash_seed, points, docs, observed >>

\* add_chunks calls that are between their entry and their return
Running == {c \in Calls : calls[c].pc \in {"deleting", "inserting"}}

\* what a channel call of a search() is given for the URL: the chunks the
\* channel holds at that moment.  The call is tagged with the add_chunks
\* call it runs beside, if just one is running and the other one has not
\* moved since that one began.
Reading(ids, channel) ==
    LET c == CHOOSE r \in Running : TRUE
    IN  IF Cardinality(Running) = 1 /\ calls[Peer(c)].pc = calls[c].peer
        THEN [read |-> TRUE, ids |-> ids, alone |-> TRUE,
              before |-> calls[c].before[channel], after |-> calls[c].batch]
        ELSE [read |-> TRUE, ids |-> ids, alone |-> FALSE,
              before |-> {}, after |-> {}]

\* first argument of gather in _get_candidates: vector_store.search
ConcSearchDense ==
    /\ ~observed.dense.read
    /\ observed' = [observed EXCEPT
                      !.dense = Reading(DenseIdsOfUrl(points), "dense")]
    /\ UNCHANGED << classifier_vars, kvalue_vars, search_vars, one_call_vars,
                    hash_seed, points, docs, calls >>

\* second argument of gather in _get_candidates: lexical_search.search
ConcSearchLexical ==
    /\ ~observed.lexical.read
    /\ observed' = [observed EXCEPT
                      !.lexical = Reading(DocsOfUrl(docs, IngestedUrl), "lexical")]
    /\ UNCHANGED << classifier_vars, kvalue_vars, search_vars, one_call_vars,
                    hash_seed, points, docs, calls >>

NextConcurrent ==
    \/ \E c \in Calls : ConcAddStart(c)
    \/ \E c \in Calls : ConcVectorDelete(c)
    \/ \E c \in Calls : ConcLexicalDelete(c)
    \/ \E c \in Calls : ConcInsertBegin(c)
    \/ \E c \in Calls : ConcVectorAdd(c)
    \/ \E c \in Calls : ConcLexicalAdd(c)
    \/ \E c \in Calls : ConcAddReturn(c)
    \/ ConcSearchDense
    \/ ConcSearchLexical

SpecConcurrent == Init /\ [][NextConcurrent]_vars

NextIndex ==
    \/ AddStart
    \/ DeleteBegin
    \/ VectorDelete
    \/ VectorDeleteSwallow
    \/ LexicalDelete
    \/ LexicalDeleteSwallow
    \/ DeleteEnd
    \/ InsertBegin
    \/ VectorAdd
    \/ VectorAddRaise
    \/ LexicalAdd
    \/ LexicalAddRaise
    \/ AddReturn
    \/ AddRaise
    \/ Restart
    \/ Crash
    \/ GetChunkById

SpecIndex == Init /\ [][NextIndex]_vars

\* add_chunks calls whose backend calls all succeed, restarts of the
\* process, and delete_chunk calls
NextDelete ==
    \/ AddStart
    \/ DeleteBegin
    \/ VectorDelete
    \/ LexicalDelete
    \/ DeleteEnd
    \/ InsertBegin
    \/ VectorAdd
    \/ LexicalAdd
    \/ AddReturn
    \/ Restart
    \/ DeleteChunk

SpecDelete == Init /\ [][NextDelete]_vars

Next ==
    \/ SearchStart
    \/ VectorSearchReturn
    \/ VectorSearchRaise
    \/ LexicalSearchReturn
    \/ LexicalSearchSwallow
    \/ GatherRaise
    \/ Combine
    \/ RerankSkip
    \/ RerankCall
    \/ RerankReturn
    \/ RerankRaise
    \/ Diversify
    \/ SearchReturn
    \/ RerankDirectCall
    \/ RerankDirectBypass
    \/ RerankDirectPredict
    \/ RerankDirectReturn
    \/ RerankDirectRaise

Spec == Init /\ [][Next]_vars

\* the event loop resumes search() whenever the awaited calls are done, so
\* the steps search() takes on its own are weakly fair; nothing obliges a
\* backend or the cross-encoder to answer
SpecLive ==
    /\ Init
    /\ [][Next]_vars
    /\ WF_vars(GatherRaise)
    /\ WF_vars(Combine)
    /\ WF_vars(RerankSkip)
    /\ WF_vars(RerankCall)
    /\ WF_vars(Diversify)
    /\ WF_vars(SearchReturn)

NextClassifier == Classify

SpecClassifier == InitClassify /\ [][NextClassifier]_vars

NextKValues == GetKValues

SpecKValues == InitGetKValues /\ [][NextKValues]_vars

(***************************************************************************)
(* Properties                                                              *)
(***************************************************************************)
ScoresOf(list) == [i \in 1..Len(list) |-> list[i].score]

\* results holds the output of _combine_results, not yet touched by rerank
Fused ==
    \/ pc \in {"combined", "reranking"}
    \/ pc \in {"reranked", "diversified", "done"} /\ rstat = "none"

\* search() got past fusion
AfterFusion == pc \in {"combined", "reranking", "reranked", "diversified", "done"}

\* C1: whenever a chunk id occurs in the dense list and in the lexical list
\* handed to _combine_results, the fused list has exactly one entry for it.
C1_DedupSharedId ==
    Fused =>
        \A id \in IdsOf(vector_results) \cap IdsOf(lexical_results) :
            Occurrences(results, id) = 1

\* C2: within one search() call every chunk id appears at most once in the
\* list after fusion and in the list search() returns, whatever the channels
\* returned.
C2_NoDuplicateIds ==
    /\ AfterFusion => \A id \in ChunkIds : Occurrences(results, id) <= 1
    /\ pc = "done" => \A id \in ChunkIds : Occurrences(returned, id) <= 1

\* C3: after combine, after rerank, after diversify and in the list search()
\* returns, the scores are non-increasing.
C3_MonotonicOrdering ==
    /\ AfterFusion => NonIncreasing(ScoresOf(results))
    /\ pc \in {"diversified", "done"} => NonIncreasing(ScoresOf(diversified))
    /\ pc = "done" => NonIncreasing(ScoresOf(returned))

\* a search that reranked, dropped a result in diversify and returned at
\* least two results of different score
C3_Witness ==
    /\ pc = "done"
    /\ rstat = "ok"
    /\ Len(diversified) < Len(results)
    /\ Len(returned) >= 2
    /\ FracLt(returned[2].score, returned[1].score)
    /\ CombineUnsorted(vector_results, lexical_results)
         # _combine_results(vector_results, lexical_results)

InUnit(f) == FracLeq(Frac(0, 1), f) /\ FracLeq(f, Frac(1, 1))

IsMaxOf(list, i) == \A j \in 1..Len(list) : FracLeq(list[j].score, list[i].score)

\* the score of hit i of a channel list divided by the channel's maximum
NormalizedHit(list, i) ==
    LET m == CHOOSE k \in 1..Len(list) : IsMaxOf(list, k)
    IN  Frac(list[i].score[1] * list[m].score[2],
             list[i].score[2] * list[m].score[1])

\* the dense channel returned [a: 0.9, b: 0.5], the lexical [b: 10.0, c: 2.0]
DocumentedScenario ==
    /\ Len(vector_results) = 2 /\ Len(lexical_results) = 2
    /\ vector_results[1].id = "a" /\ vector_results[1].score = Frac(9, 10)
    /\ vector_results[2].id = "b" /\ vector_results[2].score = Frac(5, 10)
    /\ lexical_results[1].id = "b" /\ lexical_results[1].score = Frac(10, 1)
    /\ lexical_results[2].id = "c" /\ lexical_results[2].score = Frac(2, 1)

\* C4: every fused entry carries the fused score of its chunk id: dense-only
\* -> dense score / dense maximum, "Vector"; in both channels -> 0.6 *
\* normalized dense + 0.4 * normalized lexical, "Hybrid"; lexical-only ->
\* lexical score / lexical maximum, "Lexical"; and the documented scenario
\* fuses to a = 1.000 (Vector), b = 0.733 (Hybrid), c = 0.200 (Lexical).
C4_FusedScores ==
    Fused =>
        /\ \A e \in 1..Len(results) :
            LET id == results[e].id
                dense == {i \in 1..Len(vector_results) : vector_results[i].id = id}
                lexical == {j \in 1..Len(lexical_results) : lexical_results[j].id = id}
            IN  /\ (dense # {} /\ lexical = {}) =>
                      /\ results[e].explanation[1] = "Vector"
                      /\ \E i \in dense :
                            results[e].score = NormalizedHit(vector_results, i)
                /\ (dense # {} /\ lexical # {}) =>
                      /\ results[e].explanation[1] = "Hybrid"
                      /\ \E i \in dense, j \in lexical :
                            results[e].score =
                                Blend(6, NormalizedHit(vector_results, i),
                                      4, NormalizedHit(lexical_results, j))
                /\ (dense = {} /\ lexical # {}) =>
                      /\ results[e].explanation[1] = "Lexical"
                      /\ \E j \in lexical :
                            results[e].score = NormalizedHit(lexical_results, j)
                /\ results[e].explanation[2] = Fmt3(results[e].score)
        /\ DocumentedScenario =>
              /\ [e \in 1..Len(results) |-> results[e].id] = <<"a", "b", "c">>
              /\ [e \in 1..Len(results) |-> results[e].explanation] =
                    << <<"Vector", 1000>>, <<"Hybrid", 733>>, <<"Lexical", 200>> >>

C7_ChannelFailureSurfaces ==
    pc = "done" => (vstat # "failed" /\ ~lexical_error)

\* C8: a failure of the cross-encoder call does not make search() fail.
C8_RerankFailureRecovered ==
    rstat = "failed" => pc # "error"

\* C9: after add_chunks returned normally, each channel holds for every
\* source URL of the batch exactly the batch's chunks of that URL.
C9_ReplaceOnReingest ==
    add_pc = "done" =>
        \A url \in {SourceUrlOf(id) : id \in batch} :
            LET fresh == {id \in batch : SourceUrlOf(id) = url}
            IN  /\ {p.id : p \in PointsOfUrl(points, url)} = fresh
                /\ Cardinality(PointsOfUrl(points, url)) = Cardinality(fresh)
                /\ DocsOfUrl(docs, url) = fresh

\* C10: once a delete-by-URL of the replace step has failed, add_chunks does
\* not go on to insert and does not return normally.
C10_DeleteFailureSurfaces ==
    delete_failed => add_pc \notin {"inserting", "done"}

\* C12: while search() fetches, both channel calls have been issued; fusion
\* has started only after both calls completed; and the fused list is the
\* fusion of the two returned lists, whichever call returned first.
C12_JoinBeforeFusion ==
    /\ pc = "fetching" => (vstat # "none" /\ lstat # "none")
    /\ AfterFusion => (vstat = "ok" /\ lstat = "ok")
    /\ Fused => results = _combine_results(vector_results, lexical_results)

\* the lexical call has returned hits while the dense call is still in
\* flight, and nothing has been fused
C12_Witness ==
    /\ pc = "fetching"
    /\ lstat = "ok" /\ lexical_results # <<>>
    /\ vstat = "pending"
    /\ results = <<>>

\* section keys a result can carry: the two section paths of the corpus and
\* the key of a result without section path
Sections == {SectionOf(id) : id \in ChunkIds} \cup {"unknown"}

Min(m, n) == IF m < n THEN m ELSE n

\* results of the section that the cap alone lets through
CappedCount(list, section) == Min(SectionCount(list, section), MaxPerSection)

RECURSIVE CappedTotal(_, _)
CappedTotal(list, sections) ==
    IF sections = {} THEN 0
    ELSE LET s == CHOOSE x \in sections : TRUE
         IN  CappedCount(list, s) + CappedTotal(list, sections \ {s})

\* C13: diversify keeps more than maxPerSection results of a section only
\* when the other sections, each cut to the cap, supply fewer than finalSize
\* results, and then the output has at most finalSize results.
C13_CapUnlessBackfill ==
    pc \in {"diversified", "done"} =>
        \A s \in Sections :
            SectionCount(diversified, s) > MaxPerSection =>
                /\ CappedTotal(results, Sections \ {s}) < KFinal
                /\ Len(diversified) <= KFinal

\* number of results ranked before result i that carry its section key
EarlierOfSection(list, i) ==
    Cardinality({j \in 1..(i - 1) :
        (IF list[j].section_path = "" THEN "unknown" ELSE list[j].section_path)
            = (IF list[i].section_path = "" THEN "unknown" ELSE list[i].section_path)})

\* positions of list[1..i] accepted under the rule "section counter below
\* maxPerSection, or output shorter than finalSize"
RECURSIVE AcceptedUpTo(_, _)
AcceptedUpTo(list, i) ==
    IF i = 0 THEN <<>>
    ELSE LET before == AcceptedUpTo(list, i - 1)
         IN  IF EarlierOfSection(list, i) < MaxPerSection \/ Len(before) < KFinal
             THEN Append(before, i)
             ELSE before

DistinctSections(list) ==
    \A i \in 1..Len(list) : EarlierOfSection(list, i) = 0

\* C14: diversify accepts a ranked result exactly when its section's counter
\* is below maxPerSection or the output has fewer than finalSize entries; so
\* the output has at least min(finalSize, len(ranked)) entries, and a ranked
\* list whose results all have distinct sections is returned whole.
C14_AcceptRule ==
    pc \in {"diversified", "done"} =>
        LET accepted == AcceptedUpTo(results, Len(results))
        IN  /\ diversified = [n \in 1..Len(accepted) |-> results[accepted[n]]]
            /\ Len(diversified) >= Min(KFinal, Len(results))
            /\ DistinctSections(results) => diversified = results

\* diversify has dropped a result of a ranked list of distinct chunks: its
\* section was at the cap and the output had reached finalSize
C14_Witness ==
    /\ pc = "diversified"
    /\ \A id \in ChunkIds : Occurrences(results, id) <= 1
    /\ Len(results) > KFinal
    /\ Len(diversified) = KFinal
    /\ ~DistinctSections(results)

\* C15: when the fused list of a search() has at most one element or at most
\* k_final elements, the cross-encoder is not called and the list goes on to
\* diversify exactly as fusion produced it; and _rerank_results called on a
\* list of length 0 or 1 returns that list unchanged.
C15_RerankSkipped ==
    /\ (/\ pc \in {"reranked", "diversified", "done"}
        /\ (Len(results) <= 1 \/ Len(results) <= KFinal))
          => /\ rstat = "none"
             /\ results = _combine_results(vector_results, lexical_results)
    /\ (pc = "direct_done" /\ Len(rerank_input) <= 1)
          => /\ rstat = "none"
             /\ results = rerank_input

\* a search() whose fused list has more than one element and as many as
\* k_final went past the rerank stage
C15_Witness ==
    /\ pc = "reranked"
    /\ Len(results) > 1 /\ Len(results) = KFinal
    /\ rstat = "none"
    /\ \E i \in 1..Len(results) : results[i].explanation[1] = "Hybrid"

\* C16: a search() whose two channel calls both returned no candidate does
\* not end with an error, does not call the cross-encoder, and returns the
\* empty list.
C16_EmptyCandidates ==
    (/\ vstat = "ok" /\ lstat = "ok"
     /\ vector_results = <<>> /\ lexical_results = <<>>)
        => /\ pc # "error" /\ error = "none"
           /\ rstat = "none"
           /\ results = <<>>
           /\ pc = "done" => returned = <<>>

\* search() has returned after both backends answered with no hit
C16_Witness ==
    /\ pc = "done"
    /\ vstat = "ok" /\ lstat = "ok" /\ ~lexical_error
    /\ vector_results = <<>> /\ lexical_results = <<>>
    /\ returned = <<>>

\* C18: every search() that has started eventually ends, with a result list
\* or with an error, also when a backend or the cross-encoder never answers.
C18_SearchEnds ==
    (pc \in {"fetching", "reranking"}) ~> (pc \in {"done", "error"})

\* the query, as typed, holds a word of the error-code shape
HasErrorCode(query) == \E i \in 1..Len(query) : IsErrorCodeShape(query[i])

\* the query holds an error word or a parameter or procedure indicator
HasOtherIndicator(query) ==
    LET q == Lower(query)
    IN  \/ HasWord(q, {"errore", "error", "avviso", "warning", "codice"})
        \/ HasPair(q, {"non"}, {"funziona", "va", "riesco"})
        \/ parameter_patterns(q)
        \/ procedure_patterns(q)

\* C20: a query that holds an error code of the shape "2 to 4 capital
\* letters, optional hyphen, 2 to 4 digits" and no other indicator is
\* classified as ERROR.
C20_ErrorCodeShape ==
    (/\ cls_result # "none"
     /\ HasErrorCode(cls_query)
     /\ ~HasOtherIndicator(cls_query))
        => cls_result = "error"

\* C11: after the second of two add_chunks calls in a row with the same
\* chunk set has returned, get_stats reports for each channel the count it
\* reported after the first.
C11_IdempotentReingest ==
    (add_pc = "done" /\ first_call.calls = 2) =>
        /\ get_stats(points, docs).points = first_call.points
        /\ get_stats(points, docs).docs = first_call.docs

\* C17: when add_chunks returns for a batch whose previous ingestion broke
\* off and left the channels different, both channels hold for every source
\* URL of the batch exactly the batch's chunks.
C17_ReingestHeals ==
    (add_pc = "done" /\ healing) =>
        \A url \in {SourceUrlOf(id) : id \in batch} :
            LET fresh == {id \in batch : SourceUrlOf(id) = url}
            IN  /\ {p.id : p \in PointsOfUrl(points, url)} = fresh
                /\ Cardinality(PointsOfUrl(points, url)) = Cardinality(fresh)
                /\ DocsOfUrl(docs, url) = fresh

\* C19: a get_chunk_by_id call in which both backends answered returns the
\* dense channel's chunk when the dense channel holds the id, has asked the
\* lexical channel only after the dense channel reported not-found, and
\* returns null only when neither channel holds the id.
C19_DenseFirstLookup ==
    (/\ lookup.id # "none"
     /\ lookup.dense # "raised" /\ lookup.lexical # "raised") =>
        LET dense_holds == \E p \in points : p.id = lookup.id
        IN  /\ dense_holds => lookup.result = "dense"
            /\ lookup.lexical # "not_asked" => lookup.dense = "not_found"
            /\ lookup.result = "null" =>
                  (~dense_holds /\ lookup.id \notin docs)

\* C24: a query without error indicator that holds the word "parametro" or
\* "predefinito" is classified as PARAMETER, and a query without error or
\* parameter indicator that asks "come" + verb is classified as PROCEDURE;
\* so are the two queries of the unit tests.
C24_ParameterAndProcedureWords ==
    cls_result # "none" =>
        LET q == Lower(cls_query)
            parameter_word == HasWord(q, {"parametro", "predefinito"})
        IN  /\ (~error_patterns(q) /\ parameter_word) => cls_result = "parameter"
            /\ (/\ ~error_patterns(q)
                /\ ~parameter_patterns(q) /\ ~parameter_word
                /\ HasPair(q, {"come"}, {"creare", "fare"}))
                  => cls_result = "procedure"
            /\ cls_query = <<"parametro", "predefinito", "fattura">>
                  => cls_result = "parameter"
            /\ cls_query = <<"come", "creare", "una", "fattura">>
                  => cls_result = "procedure"

\* C29: _combine_results does not fail on channel lists whose scores are all
\* >= 0, a non-empty list of zero scores included.
C29_CombineTotal ==
    (/\ vstat = "ok" /\ lstat = "ok"
     /\ \A i \in 1..Len(vector_results) :
            FracLeq(Frac(0, 1), vector_results[i].score)
     /\ \A j \in 1..Len(lexical_results) :
            FracLeq(Frac(0, 1), lexical_results[j].score))
        => error # "ZeroDivisionError"

\* C30: a search() whose fused list holds every chunk id once returns
\* exactly min(top_k, number of fused candidates) results.
C30_ReturnsTopK ==
    (pc = "done" /\ \A id \in ChunkIds : Occurrences(results, id) <= 1) =>
        Len(returned) = Min(top_k, Len(results))

\* C22: the boosts search() passes to the lexical channel are the configured
\* boosts with one field scaled per query type (error_code x2 for ERROR,
\* param_name x1.5 for PARAMETER, title x1.3 for PROCEDURE, none for
\* GENERAL), and the configured boosts are the same after any number of
\* search() calls.
C22_BoostsPerType ==
    /\ settings_boosts.title = <<7, 5>>
    /\ settings_boosts.breadcrumbs = <<6, 5>>
    /\ settings_boosts.param_name = <<2, 1>>
    /\ settings_boosts.error_code = <<5, 2>>
    /\ pc \in {"fetching", "combined", "reranking", "reranked", "diversified",
               "done", "error"} =>
        /\ boost_params.title =
              (IF query_type = "procedure" THEN <<91, 50>> ELSE <<7, 5>>)
        /\ boost_params.breadcrumbs = <<6, 5>>
        /\ boost_params.param_name =
              (IF query_type = "parameter" THEN <<3, 1>> ELSE <<2, 1>>)
        /\ boost_params.error_code =
              (IF query_type = "error" THEN <<5, 1>> ELSE <<5, 2>>)

\* a search() for a PROCEDURE query got past its channel calls: the title
\* boost it passed is scaled
C22_Witness ==
    /\ pc = "done" /\ query_type = "procedure"
    /\ boost_params.title = <<91, 50>>
    /\ settings_boosts.title = <<7, 5>>

\* the results _rerank_results has to return for its input and the scores
\* of the cross-encoder, in input order
RerankExpected ==
    [i \in 1..Len(rerank_input) |->
        [id |-> rerank_input[i].id,
         section_path |-> rerank_input[i].section_path,
         score |-> Frac(3 * rerank_input[i].score[1]
                          + 7 * rerank_scores[i] * rerank_input[i].score[2],
                        10 * rerank_input[i].score[2])]]

RerankKey(r) == [id |-> r.id, section_path |-> r.section_path, score |-> r.score]

\* C23: _rerank_results on n >= 2 results and n cross-encoder scores returns
\* the same n chunks, each with 0.3 * fused + 0.7 * cross-encoder score of
\* its own pair and a "Reranked" explanation, in descending score order.
C23_RerankBlend ==
    (/\ rstat = "ok" /\ Len(rerank_input) >= 2
     /\ Len(rerank_scores) = Len(rerank_input)) =>
        /\ Len(results) = Len(rerank_input)
        /\ \A i \in 1..Len(results) :
              /\ Cardinality({j \in 1..Len(results) :
                                 RerankKey(results[j]) = RerankExpected[i]})
                   = Cardinality({j \in 1..Len(results) :
                                 RerankExpected[j] = RerankExpected[i]})
              /\ results[i].explanation[1] = "Reranked"
              /\ results[i].explanation[2] = Fmt3(results[i].score)
        /\ \A i \in 1..(Len(results) - 1) :
              FracLeq(results[i + 1].score, results[i].score)

\* the cross-encoder's scores moved another chunk to the top
C23_Witness ==
    /\ rstat = "ok" /\ Len(rerank_input) >= 2
    /\ \E i \in 1..Len(rerank_scores) : rerank_scores[i] = 1
    /\ \E i \in 1..Len(rerank_scores) : rerank_scores[i] = 0
    /\ results[1].id # rerank_input[1].id

\* C21: _get_k_values returns the configured base values scaled per query
\* type, integer part: ERROR k_dense / 2 and k_lexical * 2, PARAMETER
\* k_dense * 0.7 and k_lexical * 1.3, PROCEDURE k_dense * 1.3 and
\* k_lexical * 0.7, GENERAL both unchanged.
C21_FanOutPerType ==
    kv_result # NoKValues =>
        LET d == kv_args.k_dense
            l == kv_args.k_lexical
            qt == kv_args.query_type
        IN  kv_result =
              (IF qt = "error" THEN << d \div 2, 2 * l >>
               ELSE IF qt = "parameter" THEN << (7 * d) \div 10, (13 * l) \div 10 >>
               ELSE IF qt = "procedure" THEN << (13 * d) \div 10, (7 * l) \div 10 >>
               ELSE << d, l >>)

\* C25: with the shipped base values _get_k_values returns
\* k_lexical > k_dense for ERROR, k_lexical >= k_dense for PARAMETER,
\* k_dense >= k_lexical for PROCEDURE and two positive values for GENERAL.
C25_KRelations ==
    (/\ kv_result # NoKValues
     /\ kv_args.k_dense = DefaultKDense
     /\ kv_args.k_lexical = DefaultKLexical) =>
        LET k_dense == kv_result[1]
            k_lexical == kv_result[2]
            qt == kv_args.query_type
        IN  /\ qt = "error" => k_lexical > k_dense
            /\ qt = "parameter" => k_lexical >= k_dense
            /\ qt = "procedure" => k_dense >= k_lexical
            /\ qt = "general" => (k_dense > 0 /\ k_lexical > 0)

\* C26: for a chunk both channels hold, delete_chunk addresses the dense
\* point add_chunks wrote for it, attempts the delete in both channels, and
\* returns True only if the chunk is absent from both channels afterwards.
C26_DeleteChunk ==
    (removal.id # "none" /\ removal.indexed) =>
        /\ removal.addressed \in removal.stored
        /\ removal.dense # "none" /\ removal.lexical # "none"
        /\ removal.result = "true" =>
              (removal.dense_left = {} /\ ~removal.lexical_left)

\* C27: after two add_chunks calls for the same source URL with different
\* chunk sets have both returned, each channel holds for the URL the chunk
\* set of exactly one of the two calls, whatever the interleaving.
C27_OneCallWins ==
    (/\ \A c \in Calls : calls[c].pc = "done"
     /\ calls[1].batch # calls[2].batch) =>
        /\ DenseIdsOfUrl(points) \in {calls[1].batch, calls[2].batch}
        /\ DocsOfUrl(docs, IngestedUrl) \in {calls[1].batch, calls[2].batch}

\* C28: a channel call of a search() that runs beside one add_chunks
\* reingesting the URL is given the chunk set indexed for the URL before
\* that call or the chunk set of the call, never none or a mixture.
C28_SearchSeesOldOrNew ==
    /\ (observed.dense.read /\ observed.dense.alone) =>
          observed.dense.ids \in {observed.dense.before, observed.dense.after}
    /\ (observed.lexical.read /\ observed.lexical.alone) =>
          observed.lexical.ids \in {observed.lexical.before, observed.lexical.after}

====
